---------------------------- MODULE Spec2Model ----------------------------
(***************************************************************************)
(* The document downloader of download_docs.py: Client's retrying query,   *)
(* the paginated generator get_documents, the CSV writer write_docs and    *)
(* main's pre-flight check and header writing, run against a file system   *)
(* of four output files and a server that answers as it pleases.           *)
(*                                                                         *)
(* Every CSV cell is a pair <<name, n>>: a header cell is <<column, 0>>,   *)
(* a document's field is <<field, document number>>, so that a value       *)
(* written to a row can be told from any other value of the document.      *)
(*                                                                         *)
(* The transport protocol is the one the API documents: a 429 response     *)
(* carries a Retry-After header holding a non-negative integer.            *)
(***************************************************************************)
EXTENDS Integers, Sequences, FiniteSets, TLC

(* ------------------------------ bounds -------------------------------- *)
\* successive runs of main over the same directory
MaxRuns == 2
\* pages the server serves to one fetch
MaxPages == 2
\* documents on one page
MaxPageSize == 2
\* entries of one errors list
MaxErrors == 2
\* how far a Retry-After header may exceed max_retry_wait
MaxExcessWait == 1
\* documents of one batch handed to write_docs on its own
MaxBatch == 1
\* company relations of one document handed to write_docs on its own
MaxCompanies == 2
\* and its topic relations
MaxTopics == 2
\* calls of search_companies and search_taxonomy on one client
MaxSearches == 2

(* -------------------------- program constants -------------------------- *)
max_retry_wait == 30
max_retries == 3
RATE_LIMIT == 429

_max_retries_msg == "Maximum number of retries exceeded"

FileNames ==
    {"documents.csv", "documents_denormalised.csv",
     "documents_companies.csv", "documents_topics.csv"}

\* the order of main's pre-flight loop over the csv types
FileOrder ==
    <<"documents.csv", "documents_denormalised.csv",
      "documents_companies.csv", "documents_topics.csv">>

\* a path that names no file, and a file holding the rows rs
NoFile == [exists |-> FALSE, rows |-> <<>>]
File(rs) == [exists |-> TRUE, rows |-> rs]

(* ------------------------------ helpers -------------------------------- *)
Range(s) == {s[i] : i \in 1..Len(s)}

RECURSIVE Flatten(_)
Flatten(ss) ==
    IF ss = <<>> THEN <<>> ELSE Head(ss) \o Flatten(Tail(ss))

RECURSIVE SumSeq(_)
SumSeq(s) ==
    IF s = <<>> THEN 0 ELSE Head(s) + SumSeq(Tail(s))

Min(a, b) == IF a < b THEN a ELSE b

IsPrefix(s, t) ==
    /\ Len(s) <= Len(t)
    /\ \A i \in 1..Len(s) : s[i] = t[i]

SeqsUpTo(S, n) == UNION {[1..k -> S] : k \in 0..n}

(* ----------------------------- documents ------------------------------- *)
CompanyIds == {<<"company.id", c>> : c \in 1..2}
TopicIds == {<<"topic.id", t>> : t \in 1..2}

CompanyRel(cid, k) ==
    [company |-> [id |-> cid, name |-> <<"company.name", cid[2]>>],
     significance |-> <<"company.significance", k>>]

TopicRel(tid, k) ==
    [topic |-> [id |-> tid, name |-> <<"topic.name", tid[2]>>],
     significance |-> <<"topic.significance", k>>]

\* a node of the documents query: document number n, related to the
\* companies cs and the topics ts (sequences of ids)
Document(n, cs, ts) ==
    [id |-> <<"id", n>>, harvestTime |-> <<"harvestTime", n>>,
     title |-> <<"title", n>>, domain |-> <<"domain", n>>,
     url |-> <<"url", n>>, source |-> <<"source", n>>,
     publisher |-> <<"publisher", n>>, reach |-> <<"reach", n>>,
     sentiment |-> <<"sentiment", n>>, author |-> <<"author", n>>,
     companies |-> [i \in 1..Len(cs) |-> CompanyRel(cs[i], i)],
     topics |-> [i \in 1..Len(ts) |-> TopicRel(ts[i], i)]]

(* ------------------------------ headers -------------------------------- *)
HeaderRow(names) == [i \in 1..Len(names) |-> <<names[i], 0>>]

docs_header ==
    HeaderRow(<<"id", "harvest_time", "sentiment", "reach", "publisher",
                "domain", "source", "author", "url", "title">>)

denorm_header ==
    HeaderRow(<<"document_id", "harvest_time", "data_source", "sentiment",
                "reach", "company_id", "company_name",
                "company_significance", "topic_id", "topic_name",
                "topic_significance">>)

comp_header ==
    HeaderRow(<<"document_id", "company_id", "company_name",
                "company_significance">>)

tops_header ==
    HeaderRow(<<"document_id", "topic_id", "topic_name",
                "topic_significance">>)

file_headers ==
    [f \in FileNames |->
        CASE f = "documents.csv" -> docs_header
          [] f = "documents_denormalised.csv" -> denorm_header
          [] f = "documents_companies.csv" -> comp_header
          [] f = "documents_topics.csv" -> tops_header]

\* a header written behind what the file holds
write_headers_Append(fs, file, headers) ==
    [fs EXCEPT ![file] = File(fs[file].rows \o <<headers>>)]

\* open(file, "w") and one writerow: the file is created or truncated
write_headers(fs, file, headers) ==
    [fs EXCEPT ![file] = File(<<headers>>)]

\* a header for every file, existing or not
HeaderTargets_All(existing) == FileNames

\* the files write_all_headers writes a header to
HeaderTargets(existing) == {k \in FileNames : k \notin Range(existing)}

write_all_headers(fs, existing) ==
    [k \in FileNames |->
        IF k \in HeaderTargets(existing)
        THEN write_headers(fs, k, file_headers[k])[k]
        ELSE fs[k]]

(* ------------------------------ write_docs ----------------------------- *)
\* the base of a row without the reach
doc_base_NoReach(doc) == <<doc.id, doc.harvestTime, doc.sentiment>>

doc_base(doc) == <<doc.id, doc.harvestTime, doc.sentiment, doc.reach>>

DocsRow(doc) ==
    doc_base(doc)
        \o <<doc.publisher, doc.domain, doc.source, doc.author, doc.url,
             doc.title>>

DenormRow(doc, company, topic) ==
    doc_base(doc)
        \o <<company.company.id, company.company.name, company.significance,
             topic.topic.id, topic.topic.name, topic.significance>>

CompRow(doc, company) ==
    <<doc.id, company.company.id, company.company.name,
      company.significance>>

TopsRow(doc, topic) ==
    <<doc.id, topic.topic.id, topic.topic.name, topic.significance>>

\* the company loops without their test of the focus id
FocusCompanies_Unfiltered(doc, focus_id) == doc.companies

\* the company relations of doc the two company loops let through
FocusCompanies(doc, focus_id) ==
    SelectSeq(doc.companies, LAMBDA company : company.company.id = focus_id)

DenormRows(doc, focus_id) ==
    LET cs == FocusCompanies(doc, focus_id) IN
    Flatten([i \in 1..Len(cs) |->
                [j \in 1..Len(doc.topics) |->
                    DenormRow(doc, cs[i], doc.topics[j])]])

CompRows(doc, focus_id) ==
    LET cs == FocusCompanies(doc, focus_id) IN
    [i \in 1..Len(cs) |-> CompRow(doc, cs[i])]

TopsRows(doc) ==
    [j \in 1..Len(doc.topics) |-> TopsRow(doc, doc.topics[j])]

\* the rows one document adds to file f
RowsFor(f, doc, focus_id) ==
    CASE f = "documents.csv" -> <<DocsRow(doc)>>
      [] f = "documents_denormalised.csv" -> DenormRows(doc, focus_id)
      [] f = "documents_companies.csv" -> CompRows(doc, focus_id)
      [] f = "documents_topics.csv" -> TopsRows(doc)

\* open(f, "a") for the four files (a missing file is created, an existing
\* one keeps its rows), then the rows of every document in turn
write_docs(fs, documents, focus_id) ==
    [f \in FileNames |->
        File(fs[f].rows
               \o Flatten([d \in 1..Len(documents) |->
                              RowsFor(f, documents[d], focus_id)]))]

(* ------------------------------- options ------------------------------- *)
\* Python's None (or an unbound name), and a value that is there
None == <<>>
Some(x) == <<x>>
Get(o) == o[1]

(* ------------------------------ the server ----------------------------- *)
\* the document the server holds at position n of the insight's result
CompanyPattern(n) ==
    CASE n % 4 = 1 -> <<<<"company.id", 1>>, <<"company.id", 2>>>>
      [] n % 4 = 2 -> <<<<"company.id", 2>>>>
      [] n % 4 = 3 -> <<<<"company.id", 1>>, <<"company.id", 1>>>>
      [] OTHER -> <<>>

TopicPattern(n) ==
    CASE n % 4 = 1 -> <<<<"topic.id", 1>>, <<"topic.id", 2>>>>
      [] n % 4 = 2 -> <<<<"topic.id", 1>>>>
      [] n % 4 = 3 -> <<>>
      [] OTHER -> <<<<"topic.id", 2>>>>

ServerDocument(n) == Document(n, CompanyPattern(n), TopicPattern(n))

\* the data of a page of size documents that follow the first `sent` ones
PageData(sent, size, has_next) ==
    [documents |->
        [edges |-> [i \in 1..size |-> [node |-> ServerDocument(sent + i)]],
         pageInfo |-> [endCursor |-> <<"cursor", sent + size>>,
                       hasNextPage |-> has_next]]]

ErrorList(k) == [i \in 1..k |-> [message |-> <<"message", i>>]]

Edges(data) == data.documents.edges
PageInfo(data) == data.documents.pageInfo

\* the Retry-After headers a 429 response may carry: below and above
\* max_retry_wait
RetryAfterValues == {1, max_retry_wait + MaxExcessWait}

\* the errors urlopen raises: HTTPError(url, code, msg, hdrs, fp) and, for
\* a failed connection, URLError
HTTPError(code, msg, retry_after) ==
    [type |-> "HTTPError", code |-> code, msg |-> msg,
     hdrs |-> [retry_after |-> retry_after]]

URLError == [type |-> "URLError", code |-> 0, msg |-> "unreachable",
             hdrs |-> [retry_after |-> -1]]

RateLimitErrors ==
    {HTTPError(RATE_LIMIT, "Too Many Requests", ra) : ra \in RetryAfterValues}

OtherErrors == {HTTPError(500, "Internal Server Error", -1), URLError}

(* -------------------------------- state -------------------------------- *)
VARIABLES
    files,           \* the four paths of the working directory
    run,             \* how many runs of main have started
    pc,              \* where the current run is
    args,            \* parse_args(): append, overwrite, focus_id
    existing_files,  \* main's local, unbound (None) until assigned
    append,          \* main's local
    total_docs,      \* main's local
    error,           \* the exception that ended the run, if any
    next_page,       \* get_documents' locals
    page_count,
    after,           \* variables["after"], None while the key is missing
    attempt,         \* execute_query_with_retries' loop variable
    wait,            \* and its local
    response,        \* what execute_query_with_retries returned
    page,            \* the batch get_documents yielded to main's loop
    before,          \* history: the files as the current run found them
    hdrWrites,       \* history: write_headers calls of this run, per file
    allAppend,       \* history: every run so far was an --append run
    requests,        \* history: requests sent by the current call
    rateLimited,     \* history: 429 answers to the current call
    sleeps,          \* history: sleeps of the current call
    lastAnswer,      \* history: the server's latest answer
    runRequests,     \* history: requests sent by this run
    served,          \* history: error-free pages the server sent this run
    yielded,         \* history: the batches get_documents yielded this run
    sentAfter,       \* history: variables.get("after") of the latest request
    handles,         \* the output files write_docs holds open
    opens,           \* history: the times this run opened the output files
    search,          \* search.py: the name searched for
    companies,       \* search.py: the lists "best" and "all" built so far
    results          \* history: the result lists the server sent the search

mainVars == <<args, existing_files, append, total_docs, error>>
genVars == <<next_page, page_count, after, response, page>>
callVars == <<attempt, wait, requests, rateLimited, sleeps, lastAnswer>>
histVars ==
    <<before, hdrWrites, allAppend, runRequests, served, yielded, sentAfter>>
outVars == <<handles, opens>>
searchVars == <<search, companies, results>>
vars ==
    <<files, run, pc, mainVars, genVars, callVars, histVars, outVars,
      searchVars>>

\* documents the server has sent to the current fetch
DocsSent == SumSeq([i \in 1..Len(served) |-> Len(Edges(served[i]))])

(* --------------------------------- Init -------------------------------- *)
LegacyRows == <<<<<<"legacy", 0>>>>>>

FocusChoices == {<<"company.id", 1>>}

NoArgs == [append |-> FALSE, overwrite |-> FALSE,
           focus_id |-> <<"company.id", 1>>]

\* the output files a first run may find: none, all, or some
InitialExisting ==
    {{}, {"documents.csv"}, FileNames \ {"documents.csv"}, FileNames}

\* search.py: companies = {"best": [], "all": []}
NoCompanies == [best |-> <<>>, all |-> <<>>]

Directory(ex) ==
    [f \in FileNames |-> IF f \in ex THEN File(LegacyRows) ELSE NoFile]

Init ==
    /\ files \in {Directory(ex) : ex \in InitialExisting}
    /\ run = 0
    /\ pc = "shell"
    /\ args = NoArgs
    /\ existing_files = None
    /\ append = FALSE
    /\ total_docs = 0
    /\ error = None
    /\ next_page = TRUE
    /\ page_count = 1
    /\ after = None
    /\ attempt = 0
    /\ wait = 0
    /\ response = None
    /\ page = <<>>
    /\ before = files
    /\ hdrWrites = [f \in FileNames |-> 0]
    /\ allAppend = TRUE
    /\ requests = 0
    /\ rateLimited = 0
    /\ sleeps = 0
    /\ lastAnswer = None
    /\ runRequests = 0
    /\ served = <<>>
    /\ yielded = <<>>
    /\ sentAfter = None
    /\ handles = {}
    /\ opens = 0
    /\ search = None
    /\ companies = NoCompanies
    /\ results = <<>>

(* --------------------------------- main -------------------------------- *)
\* an exception that main swallows to go on with the next page
Raise_AndGoOn(e) ==
    /\ pc' = "resume"
    /\ error' = Some(e)

Raise(e) ==
    /\ pc' = "failed"
    /\ error' = Some(e)

FilesExistError(names) ==
    [type |-> "Exception", msg |-> "Files already exist", files |-> names]

UnboundLocalError(name) ==
    [type |-> "UnboundLocalError", msg |-> name]

\* the names of the output files that exist, in the order main looks
ExistingFiles(fs) == SelectSeq(FileOrder, LAMBDA f : fs[f].exists)

\* a check that refuses only when all four files exist
Conflict_AllFour(found) == ~args.append /\ Len(found) = Len(FileOrder)

\* not args.append and len(existing_files) != 0
Conflict(found) == ~args.append /\ Len(found) # 0

\* the empty list passed whatever the mode
HeaderArgument_Empty == <<>>

\* the argument main passes to write_all_headers
HeaderArgument == IF args.append THEN Get(existing_files) ELSE <<>>

\* a fresh call of execute_query_with_retries
EnterCall ==
    /\ attempt' = 0
    /\ wait' = 0
    /\ requests' = 0
    /\ rateLimited' = 0
    /\ sleeps' = 0
    /\ lastAnswer' = None

\* parse_args() with the flags --append, --overwrite, --focus, in a fresh
\* process
Start(a, o, f) ==
    /\ run' = run + 1
    /\ pc' = "preflight"
    /\ args' = [append |-> a, overwrite |-> o, focus_id |-> f]
    /\ existing_files' = None
    /\ append' = FALSE
    /\ total_docs' = 0
    /\ error' = None
    /\ next_page' = TRUE
    /\ page_count' = 1
    /\ after' = None
    /\ response' = None
    /\ page' = <<>>
    /\ EnterCall
    /\ before' = files
    /\ hdrWrites' = [k \in FileNames |-> 0]
    /\ allAppend' = (allAppend /\ a)
    /\ runRequests' = 0
    /\ served' = <<>>
    /\ yielded' = <<>>
    /\ sentAfter' = None
    /\ handles' = {}
    /\ opens' = 0
    /\ UNCHANGED <<files, searchVars>>

\* the script is run in the directory
Main(a, o, f) ==
    /\ pc = "shell"
    /\ Start(a, o, f)

\* the script is run again where an earlier run has ended
Rerun(a, o, f) ==
    /\ pc \in {"finished", "failed"}
    /\ run < MaxRuns
    /\ Start(a, o, f)

\* the pre-flight check: without --overwrite, collect the files that exist
\* and refuse to go on unless --append was given or there are none
Preflight ==
    /\ pc = "preflight"
    /\ IF ~args.overwrite
       THEN LET found == ExistingFiles(files) IN
            /\ existing_files' = Some(found)
            /\ IF Conflict(found)
               THEN Raise(FilesExistError(found))
               ELSE pc' = "headers" /\ UNCHANGED error
       ELSE /\ pc' = "headers"
            /\ UNCHANGED <<existing_files, error>>
    /\ UNCHANGED <<files, run, args, append, total_docs, genVars, callVars,
                   histVars, outVars, searchVars>>

\* total_docs = 0, append = args.append and the call of write_all_headers;
\* with --append the argument is existing_files, bound or not
WriteAllHeaders ==
    /\ pc = "headers"
    /\ total_docs' = 0
    /\ append' = args.append
    /\ IF args.append /\ existing_files = None
       THEN /\ Raise(UnboundLocalError("existing_files"))
            /\ UNCHANGED <<files, hdrWrites>>
       ELSE /\ files' = write_all_headers(files, HeaderArgument)
            /\ hdrWrites' =
                   [k \in FileNames |->
                       IF k \in HeaderTargets(HeaderArgument)
                       THEN hdrWrites[k] + 1 ELSE hdrWrites[k]]
            /\ pc' = "iterate"
            /\ UNCHANGED error
    /\ UNCHANGED <<run, args, existing_files, genVars, callVars, before,
                   allAppend, runRequests, served, yielded, sentAfter,
                   outVars, searchVars>>

(* ----------------------------- get_documents --------------------------- *)
\* main's for loop asks the generator for its first page: the generator
\* sets up its locals and enters the while loop
GetDocumentsStart ==
    /\ pc = "iterate"
    /\ next_page' = TRUE
    /\ page_count' = 1
    /\ after' = None
    /\ pc' = "request"
    /\ EnterCall
    /\ UNCHANGED <<files, run, mainVars, response, page, histVars, outVars,
                   searchVars>>

\* main's for loop asks for the next page: the generator goes on after its
\* yield, to the test of the while loop
GetDocumentsResume ==
    /\ pc = "resume"
    /\ IF next_page
       THEN pc' = "request" /\ EnterCall
       ELSE pc' = "finished" /\ UNCHANGED callVars
    /\ UNCHANGED <<files, run, mainVars, genVars, histVars, outVars,
                   searchVars>>

(* ---------------------- execute_query_with_retries --------------------- *)
\* what the server may answer to the next request of the fetch: a page, no
\* data at all, or an errors list with or without data beside it; the last
\* page it is willing to serve has hasNextPage false
ServerBodies ==
    LET more == IF Len(served) + 1 < MaxPages THEN BOOLEAN ELSE {FALSE}
        pages == {Some(PageData(DocsSent, n, h)) :
                     n \in 0..MaxPageSize, h \in more}
        errs == {Some(ErrorList(k)) : k \in 1..MaxErrors}
    IN  {[errors |-> None, data |-> d] : d \in {None} \cup pages}
        \cup {[errors |-> e, data |-> d] :
                 e \in errs,
                 d \in {None, Some(PageData(DocsSent, MaxPageSize, FALSE))}}

\* a handler that also retries server errors
IsRetried_AnyHttpError(err) == err.type = "HTTPError"

\* except HTTPError as err: if err.code != 429: raise
IsRetried(err) == err.type = "HTTPError" /\ err.code = RATE_LIMIT

\* the wait taken from the header as it is
ClampedWait_Unclamped(err) == err.hdrs.retry_after

\* wait = min(int(err.headers.get("Retry-After")), self.max_retry_wait)
ClampedWait(err) == Min(err.hdrs.retry_after, max_retry_wait)

\* the test of the last attempt, one attempt late
LastAttempt_OneLate == attempt = max_retries + 1

\* attempt == self.max_retries
LastAttempt == attempt = max_retries

\* the error raised on the last attempt, from the one caught
MaxRetriesError(err) ==
    HTTPError(err.code, _max_retries_msg, err.hdrs.retry_after)

\* execute_query returns the decoded body
QueryReturns(body) ==
    /\ pc = "request"
    /\ sentAfter' = Some(after)
    /\ lastAnswer' = Some([type |-> "ok", body |-> body])
    /\ requests' = requests + 1
    /\ runRequests' = runRequests + 1
    /\ served' = IF body.errors = None /\ body.data # None
                 THEN Append(served, Get(body.data)) ELSE served
    /\ response' = Some(body)
    /\ pc' = "response"
    /\ UNCHANGED <<files, run, mainVars, next_page, page_count, after, page,
                   attempt, wait, rateLimited, sleeps, before, hdrWrites,
                   allAppend, yielded, outVars, searchVars>>

\* execute_query raises: anything but a 429 goes up unhandled; for a 429
\* the wait is clamped, and the call gives up on the last attempt or goes
\* to sleep
QueryRaises(err) ==
    /\ pc = "request"
    /\ sentAfter' = Some(after)
    /\ lastAnswer' = Some(err)
    /\ requests' = requests + 1
    /\ runRequests' = runRequests + 1
    /\ IF ~IsRetried(err)
       THEN /\ Raise(err)
            /\ UNCHANGED <<wait, rateLimited>>
       ELSE /\ rateLimited' = rateLimited + 1
            /\ wait' = ClampedWait(err)
            /\ IF LastAttempt
               THEN Raise(MaxRetriesError(err))
               ELSE pc' = "sleep" /\ UNCHANGED error
    /\ UNCHANGED <<files, run, args, existing_files, append, total_docs,
                   genVars, attempt, sleeps, before, hdrWrites, allAppend,
                   served, yielded, outVars, searchVars>>

\* sleep(wait) returns and the for loop takes the next attempt
Sleep ==
    /\ pc = "sleep"
    /\ sleeps' = sleeps + 1
    /\ attempt' = attempt + 1
    /\ pc' = "request"
    /\ UNCHANGED <<files, run, mainVars, genVars, wait, requests, rateLimited,
                   lastAnswer, histVars, outVars, searchVars>>

(* ------------------- get_documents: the response ----------------------- *)
\* the exception get_documents raises for an errors list: the messages
\* joined, then json.dumps of the list
GraphqlException(err) ==
    [type |-> "Exception",
     msg |-> "Graphql query returned the following error",
     messages |-> [i \in 1..Len(err) |-> err[i].message],
     full |-> err]

\* errors looked at only when there is no data
HasErrors_AfterData(body) == body.errors # None /\ body.data = None

\* err = response.get("errors") is not None
HasErrors(body) == body.errors # None

\* data = response.get("data") is None
HasNoData(body) == body.data = None

\* the nodes of a page without the last one
Nodes_DropLast(data) ==
    [i \in 1..(Len(Edges(data)) - 1) |-> Edges(data)[i].node]

\* the list get_documents yields for a page
Nodes(data) == [i \in 1..Len(Edges(data)) |-> Edges(data)[i].node]

\* a loop that also stops at an empty batch
NextPageOf_StopOnEmpty(data) ==
    PageInfo(data).hasNextPage /\ Len(Edges(data)) > 0

\* next_page after a page
NextPageOf(data) == PageInfo(data).hasNextPage

RaiseGraphqlError ==
    /\ pc = "response"
    /\ HasErrors(Get(response))
    /\ Raise(GraphqlException(Get(Get(response).errors)))
    /\ UNCHANGED <<files, run, args, existing_files, append, total_docs,
                   genVars, callVars, histVars, outVars, searchVars>>

\* no data taken for an error
BreakOnNoData_Raise ==
    /\ pc = "response"
    /\ ~HasErrors(Get(response))
    /\ HasNoData(Get(response))
    /\ Raise([type |-> "Exception", msg |-> "no data"])
    /\ UNCHANGED <<files, run, args, existing_files, append, total_docs,
                   genVars, callVars, histVars, outVars, searchVars>>

\* no errors and no data: break, the generator is exhausted and main's
\* loop ends
BreakOnNoData ==
    /\ pc = "response"
    /\ ~HasErrors(Get(response))
    /\ HasNoData(Get(response))
    /\ pc' = "finished"
    /\ UNCHANGED <<files, run, mainVars, genVars, callVars, histVars, outVars,
                   searchVars>>

\* the page's flag and cursor are kept and its nodes are yielded
YieldPage ==
    /\ pc = "response"
    /\ ~HasErrors(Get(response))
    /\ ~HasNoData(Get(response))
    /\ LET data == Get(Get(response).data) IN
       /\ next_page' = NextPageOf(data)
       /\ after' = Some(PageInfo(data).endCursor)
       /\ page_count' = page_count + 1
       /\ page' = Nodes(data)
       /\ yielded' = Append(yielded, Nodes(data))
    /\ pc' = "write"
    /\ UNCHANGED <<files, run, mainVars, response, callVars, before,
                   hdrWrites, allAppend, runRequests, served, sentAfter,
                   outVars, searchVars>>

(* ------------------------- main's loop body ---------------------------- *)
\* write_docs enters its with block: open(..., "a") of the four files,
\* which creates the missing ones
OpenFiles ==
    /\ pc = "write"
    /\ files' = [f \in FileNames |->
                    IF files[f].exists THEN files[f] ELSE File(<<>>)]
    /\ handles' = FileNames
    /\ opens' = opens + 1
    /\ pc' = "writing"
    /\ UNCHANGED <<run, mainVars, genVars, callVars, histVars, searchVars>>

\* a with block that leaves its files open
ExitWith_KeepOpen(hs) == hs

\* the end of the with block closes every file it opened
ExitWith(hs) == {}

\* the rows of the batch are written, the with block ends and write_docs
\* returns to the loop body: total_docs += len(docs), append = True
WriteDocs ==
    /\ pc = "writing"
    /\ files' = write_docs(files, page, args.focus_id)
    /\ handles' = ExitWith(handles)
    /\ total_docs' = total_docs + Len(page)
    /\ append' = TRUE
    /\ pc' = "resume"
    /\ UNCHANGED <<run, args, existing_files, error, genVars, callVars,
                   histVars, opens, searchVars>>

(* ---------------------------- specification ---------------------------- *)
Next ==
    \/ \E a \in BOOLEAN, o \in BOOLEAN, f \in FocusChoices : Main(a, o, f)
    \/ Preflight
    \/ WriteAllHeaders
    \/ GetDocumentsStart
    \/ GetDocumentsResume
    \/ \E body \in ServerBodies : QueryReturns(body)
    \/ \E err \in RateLimitErrors \cup OtherErrors : QueryRaises(err)
    \/ Sleep
    \/ RaiseGraphqlError
    \/ BreakOnNoData
    \/ YieldPage
    \/ OpenFiles
    \/ WriteDocs

\* one run of the script
Spec == Init /\ [][Next]_vars

NextRerun ==
    \/ Next
    \/ \E a \in BOOLEAN, o \in BOOLEAN, f \in FocusChoices : Rerun(a, o, f)

\* successive runs of the script in the same directory
RerunSpec == Init /\ [][NextRerun]_vars

(* ------------------- write_docs on arbitrary documents ----------------- *)
\* t topics: write_docs copies them and never looks at them
TopicsOfLen(t) == [i \in 1..t |-> <<"topic.id", 1 + (i % 2)>>]

\* every document with up to MaxCompanies company relations, in any order
\* and with repetitions, and up to MaxTopics topics, as the n-th document
\* of a batch
Documents(n) ==
    {Document(n, cs, TopicsOfLen(t)) :
        cs \in SeqsUpTo(CompanyIds, MaxCompanies), t \in 0..MaxTopics}

RECURSIVE BatchesOf(_)
BatchesOf(k) ==
    IF k = 0 THEN {<<>>}
    ELSE {Append(b, d) : b \in BatchesOf(k - 1), d \in Documents(k)}

Batches == UNION {BatchesOf(k) : k \in 0..MaxBatch}

\* the page of the server that holds the documents of batch b
BatchData(b) ==
    [documents |->
        [edges |-> [i \in 1..Len(b) |-> [node |-> b[i]]],
         pageInfo |-> [endCursor |-> <<"cursor", Len(b)>>,
                       hasNextPage |-> FALSE]]]

\* main's loop holds the only page of a fetch, of any documents, and is
\* about to call write_docs; the files hold their headers, or the rows of
\* an earlier run after them
InitWrite ==
    /\ \E rows \in {<<>>, LegacyRows} :
          files = [f \in FileNames |-> File(<<file_headers[f]>> \o rows)]
    /\ run = 1
    /\ pc = "write"
    /\ \E f \in CompanyIds :
          args = [append |-> TRUE, overwrite |-> FALSE, focus_id |-> f]
    /\ existing_files = Some(FileOrder)
    /\ append = TRUE
    /\ total_docs = 0
    /\ error = None
    /\ page \in Batches
    /\ next_page = FALSE
    /\ page_count = 2
    /\ after = Some(<<"cursor", Len(page)>>)
    /\ attempt = 0
    /\ wait = 0
    /\ response = Some([errors |-> None, data |-> Some(BatchData(page))])
    /\ before = files
    /\ hdrWrites = [f \in FileNames |-> 0]
    /\ allAppend = TRUE
    /\ requests = 1
    /\ rateLimited = 0
    /\ sleeps = 0
    /\ lastAnswer = Some([type |-> "ok", body |-> Get(response)])
    /\ runRequests = 1
    /\ served = <<BatchData(page)>>
    /\ yielded = <<page>>
    /\ sentAfter = Some(None)
    /\ handles = {}
    /\ opens = 0
    /\ search = None
    /\ companies = NoCompanies
    /\ results = <<>>

NextWrite == OpenFiles \/ WriteDocs

WriteSpec == InitWrite /\ [][NextWrite]_vars

(* ------------------------------ search.py ------------------------------ *)
\* names as strings of characters, in both cases
Names == {<<"A", "b">>, <<"b", "b">>}
Queries == {<<"a", "B">>, <<"b", "b">>}

\* str.lower(), character by character
LowerChar(c) ==
    CASE c = "A" -> "a"
      [] c = "B" -> "b"
      [] OTHER -> c

Lower(str) == [i \in 1..Len(str) |-> LowerChar(str[i])]

\* a comparison that tells the cases apart
IsMatch_CaseSensitive(node_name, name) == node_name = name

\* company["node"]["name"].lower() == name.lower()
IsMatch(node_name, name) == Lower(node_name) = Lower(name)

\* the loop over the nodes of one response: every (name, id) goes to "all",
\* the matching ones to "best" as well
RECURSIVE AddMatches(_, _, _)
AddMatches(found, nodes, name) ==
    IF nodes = <<>> THEN found
    ELSE LET node == Head(nodes)
             entry == <<node.name, node.id>>
         IN  AddMatches(
                 [all |-> Append(found.all, entry),
                  best |-> IF IsMatch(node.name, name)
                           THEN Append(found.best, entry)
                           ELSE found.best],
                 Tail(nodes), name)

\* the results the server has sent the current search

\* a page of companies whose names are ns, behind the first `sent` results
CompanyPage(sent, ns, has_next) ==
    [companies |->
        [edges |-> [i \in 1..Len(ns) |->
                       [node |-> [id |-> <<"company.id", sent + i>>,
                                  name |-> ns[i]]]],
         pageInfo |-> [endCursor |-> <<"cursor", sent + Len(ns)>>,
                       hasNextPage |-> has_next]]]

CompanyNodes(data) ==
    [i \in 1..Len(data.companies.edges) |-> data.companies.edges[i].node]

\* the results the server has sent the current company search
ResultsSent ==
    IF pc = "s_request"
    THEN SumSeq([i \in 1..Len(results) |-> Len(CompanyNodes(results[i]))])
    ELSE 0

\* the taxonomy list of the organisation, with names ns
TaxonomyList(ns) ==
    [myOrganisation |->
        [taxonomies |-> [i \in 1..Len(ns) |->
                            [id |-> <<"taxonomy.id", i>>, name |-> ns[i]]]]]

TaxonomyNodes(data) == data.myOrganisation.taxonomies

\* the bodies the server may answer a company search with: a page, nothing,
\* or an errors list with or without a page beside it
CompanyBodies ==
    LET more == IF Len(results) + 1 < MaxPages THEN BOOLEAN ELSE {FALSE}
        pages == {Some(CompanyPage(ResultsSent, ns, h)) :
                     ns \in SeqsUpTo(Names, MaxPageSize), h \in more}
    IN  {[errors |-> None, data |-> d] : d \in {None} \cup pages}
        \cup {[errors |-> Some(ErrorList(1)), data |-> d] :
                 d \in {None,
                        Some(CompanyPage(ResultsSent, <<<<"A", "b">>>>,
                                         FALSE))}}

TaxonomyBodies ==
    LET lists == {Some(TaxonomyList(ns)) :
                     ns \in SeqsUpTo(Names, MaxPageSize)}
    IN  {[errors |-> None, data |-> d] : d \in {None} \cup lists}
        \cup {[errors |-> Some(ErrorList(1)), data |-> d] :
                 d \in {None, Some(TaxonomyList(<<<<"A", "b">>>>))}}

\* the errors execute_query may raise to a search: a 429 response and the
\* others
SearchErrors ==
    {HTTPError(RATE_LIMIT, "Too Many Requests", 1)} \cup OtherErrors

\* a client that has called neither search function yet
InitSearch ==
    /\ files = Directory({})
    /\ run = 0
    /\ pc = "s_idle"
    /\ args = NoArgs
    /\ existing_files = None
    /\ append = FALSE
    /\ total_docs = 0
    /\ error = None
    /\ next_page = TRUE
    /\ page_count = 1
    /\ after = None
    /\ attempt = 0
    /\ wait = 0
    /\ response = None
    /\ page = <<>>
    /\ before = files
    /\ hdrWrites = [f \in FileNames |-> 0]
    /\ allAppend = TRUE
    /\ requests = 0
    /\ rateLimited = 0
    /\ sleeps = 0
    /\ lastAnswer = None
    /\ runRequests = 0
    /\ served = <<>>
    /\ yielded = <<>>
    /\ sentAfter = None
    /\ handles = {}
    /\ opens = 0
    /\ search = None
    /\ companies = NoCompanies
    /\ results = <<>>

\* what no search function touches
downloadVars ==
    <<files, args, existing_files, append, total_docs, page_count, page,
      before, hdrWrites, allAppend, runRequests, served, yielded, outVars>>

\* an exception that leaves the search function
RaiseSearch(e) ==
    /\ pc' = "s_failed"
    /\ error' = Some(e)

\* response["data"][...] where data is null
DataTypeError == [type |-> "TypeError", msg |-> "NoneType"]

\* a dict of variables that is the one of the call before
NewVariables_Shared(old) == old

\* v = {"first": ..., "search": name}: a new dict without the key "after"
NewVariables(old) == None

\* search_companies(client, name) is called on a client that is at rest:
\* v, next_page and companies are set up and the while loop entered
SearchCompaniesStart(name) ==
    /\ pc \in {"s_idle", "s_done", "s_failed"}
    /\ run < MaxSearches
    /\ run' = run + 1
    /\ search' = Some([kind |-> "company", name |-> name])
    /\ after' = NewVariables(after)
    /\ next_page' = TRUE
    /\ companies' = NoCompanies
    /\ results' = <<>>
    /\ response' = None
    /\ error' = None
    /\ sentAfter' = None
    /\ EnterCall
    /\ pc' = "s_request"
    /\ UNCHANGED downloadVars

\* execute_query_with_retries: execute_query returns the decoded body
SearchQueryReturns(body) ==
    /\ pc = "s_request"
    /\ sentAfter' = Some(after)
    /\ lastAnswer' = Some([type |-> "ok", body |-> body])
    /\ requests' = requests + 1
    /\ results' = IF body.data # None
                  THEN Append(results, Get(body.data))
                  ELSE results
    /\ response' = Some(body)
    /\ pc' = "s_response"
    /\ UNCHANGED <<run, error, next_page, after, attempt, wait, rateLimited,
                   sleeps, search, companies, downloadVars>>

\* execute_query_with_retries: execute_query raises
SearchQueryRaises(err) ==
    /\ pc = "s_request"
    /\ sentAfter' = Some(after)
    /\ lastAnswer' = Some(err)
    /\ requests' = requests + 1
    /\ IF ~IsRetried(err)
       THEN /\ RaiseSearch(err)
            /\ UNCHANGED <<wait, rateLimited>>
       ELSE /\ rateLimited' = rateLimited + 1
            /\ wait' = ClampedWait(err)
            /\ IF LastAttempt
               THEN RaiseSearch(MaxRetriesError(err))
               ELSE pc' = "s_sleep" /\ UNCHANGED error
    /\ UNCHANGED <<run, next_page, after, attempt, sleeps, response,
                   searchVars, downloadVars>>

\* execute_query_with_retries: sleep(wait) returns
SearchSleep ==
    /\ pc = "s_sleep"
    /\ sleeps' = sleeps + 1
    /\ attempt' = attempt + 1
    /\ pc' = "s_request"
    /\ UNCHANGED <<run, error, next_page, after, wait, requests, rateLimited,
                   lastAnswer, response, sentAfter, searchVars,
                   downloadVars>>

\* the body of the while loop behind the call: the nodes of the response
\* are added to the lists, the cursor and next_page are taken from its
\* pageInfo, and the loop goes on or the lists are returned; errors is
\* never looked at
SearchResponse ==
    /\ pc = "s_response"
    /\ LET body == Get(response) IN
       IF body.data = None
       THEN /\ RaiseSearch(DataTypeError)
            /\ UNCHANGED <<companies, after, next_page, callVars>>
       ELSE LET data == Get(body.data) IN
            /\ companies' =
                   AddMatches(companies, CompanyNodes(data),
                              Get(search).name)
            /\ after' = Some(data.companies.pageInfo.endCursor)
            /\ next_page' = data.companies.pageInfo.hasNextPage
            /\ IF data.companies.pageInfo.hasNextPage
               THEN pc' = "s_request" /\ EnterCall
               ELSE pc' = "s_done" /\ UNCHANGED callVars
            /\ UNCHANGED error
    /\ UNCHANGED <<run, response, search, results, sentAfter, downloadVars>>

\* search_taxonomy(client, name) is called on a client that is at rest:
\* v = {} and the lists are empty
SearchTaxonomyStart(name) ==
    /\ pc \in {"s_idle", "s_done", "s_failed"}
    /\ run < MaxSearches
    /\ run' = run + 1
    /\ search' = Some([kind |-> "taxonomy", name |-> name])
    /\ after' = None
    /\ companies' = NoCompanies
    /\ results' = <<>>
    /\ response' = None
    /\ error' = None
    /\ sentAfter' = None
    /\ EnterCall
    /\ pc' = "t_request"
    /\ UNCHANGED <<next_page, downloadVars>>

\* execute_query returns the decoded body
TaxonomyQueryReturns(body) ==
    /\ pc = "t_request"
    /\ sentAfter' = Some(after)
    /\ lastAnswer' = Some([type |-> "ok", body |-> body])
    /\ requests' = requests + 1
    /\ results' = IF body.data # None
                  THEN Append(results, Get(body.data))
                  ELSE results
    /\ response' = Some(body)
    /\ pc' = "t_response"
    /\ UNCHANGED <<run, error, next_page, after, attempt, wait, rateLimited,
                   sleeps, search, companies, downloadVars>>

\* execute_query raises and nothing handles it, a 429 response included
TaxonomyQueryRaises(err) ==
    /\ pc = "t_request"
    /\ sentAfter' = Some(after)
    /\ lastAnswer' = Some(err)
    /\ requests' = requests + 1
    /\ RaiseSearch(err)
    /\ UNCHANGED <<run, next_page, after, attempt, wait, rateLimited, sleeps,
                   response, searchVars, downloadVars>>

\* the loop over the taxonomies of the response, and the return
TaxonomyResponse ==
    /\ pc = "t_response"
    /\ LET body == Get(response) IN
       IF body.data = None
       THEN /\ RaiseSearch(DataTypeError)
            /\ UNCHANGED companies
       ELSE /\ companies' =
                   AddMatches(companies, TaxonomyNodes(Get(body.data)),
                              Get(search).name)
            /\ pc' = "s_done"
            /\ UNCHANGED error
    /\ UNCHANGED <<run, next_page, after, callVars, response, search,
                   results, sentAfter, downloadVars>>

NextSearch ==
    \/ \E name \in Queries : SearchCompaniesStart(name)
    \/ \E body \in CompanyBodies : SearchQueryReturns(body)
    \/ \E err \in SearchErrors : SearchQueryRaises(err)
    \/ SearchSleep
    \/ SearchResponse
    \/ \E name \in Queries : SearchTaxonomyStart(name)
    \/ \E body \in TaxonomyBodies : TaxonomyQueryReturns(body)
    \/ \E err \in SearchErrors : TaxonomyQueryRaises(err)
    \/ TaxonomyResponse

\* calls of the two search functions on one client, one after the other
SearchSpec == InitSearch /\ [][NextSearch]_vars

\* a client that is used by a run of download_docs.py or by searches
InitClient == Init \/ InitSearch

NextClient == Next \/ NextSearch

ClientSpec == InitClient /\ [][NextClient]_vars

(* ======================== properties of the code ======================= *)
Last(s) == s[Len(s)]

\* the server's latest answer is a body without errors that holds a page
AnsweredPage ==
    /\ lastAnswer # None
    /\ Get(lastAnswer).type = "ok"
    /\ Get(lastAnswer).body.errors = None
    /\ Get(lastAnswer).body.data # None

\* C1: get_documents yields one batch per error-free page, in page order,
\* sends no request after a page whose hasNextPage is false, and ends a
\* fetch of pages only behind such a page, whatever the sizes of the
\* batches: every page before the last had hasNextPage true, an empty one
\* included.
C1_OneBatchPerPage ==
    /\ Len(yielded) <= Len(served)
    /\ \A i \in 1..Len(yielded) : yielded[i] = Nodes(served[i])
    /\ Len(served) = Len(yielded) + (IF pc = "response" /\ AnsweredPage
                                     THEN 1 ELSE 0)
    /\ \A i \in 1..(Len(served) - 1) : PageInfo(served[i]).hasNextPage
    /\ (pc \in {"request", "sleep"} /\ served # <<>>)
           => PageInfo(Last(served)).hasNextPage
    /\ (pc = "finished" /\ AnsweredPage)
           => /\ Len(yielded) = Len(served)
              /\ ~PageInfo(Last(served)).hasNextPage

\* a fetch went on behind an empty page and ended behind the next one
C1_Witness ==
    /\ pc = "finished"
    /\ AnsweredPage
    /\ Len(yielded) = 2
    /\ yielded[1] = <<>>
    /\ yielded[2] # <<>>

AnsweredOtherError ==
    /\ lastAnswer # None
    /\ Get(lastAnswer).type # "ok"
    /\ ~(Get(lastAnswer).type = "HTTPError" /\ Get(lastAnswer).code = 429)

\* C4: once the server has answered with an error that is no 429 response,
\* the run has failed with exactly that error, the request that met it was
\* the last of the call, and the call slept only for the rate-limit answers
\* before it.
C4_OtherErrorsNotRetried ==
    AnsweredOtherError
        => /\ pc = "failed"
           /\ error = lastAnswer
           /\ requests = rateLimited + 1
           /\ sleeps = rateLimited

\* a 500 response behind two rate-limit answers
C4_Witness ==
    /\ AnsweredOtherError
    /\ pc = "failed"
    /\ Get(error).code = 500
    /\ rateLimited = 2

\* C5: a response with an errors list is never turned into a batch and is
\* followed by no request: the fetch fails with one exception that holds
\* the message of every error and the errors list itself, also when the
\* response holds data beside the errors.
C5_GraphqlErrorsFatal ==
    (response # None /\ Get(response).errors # None)
        => LET errs == Get(Get(response).errors)
               data == Get(response).data
           IN  /\ pc \in {"response", "failed"}
               /\ lastAnswer = Some([type |-> "ok", body |-> Get(response)])
               /\ Len(yielded) = Len(served)
               /\ data # None
                      => \A i \in 1..Len(yielded) :
                             yielded[i] # Nodes(Get(data))
               /\ pc = "failed"
                      => /\ error # None
                         /\ Get(error).type = "Exception"
                         /\ Get(error).messages
                                = [i \in 1..Len(errs) |-> errs[i].message]
                         /\ Get(error).full = errs

\* the second response of a fetch held two errors and data
C5_Witness ==
    /\ pc = "failed"
    /\ response # None
    /\ Get(response).errors # None
    /\ Len(Get(Get(response).errors)) = 2
    /\ Get(response).data # None
    /\ Len(yielded) = 1

\* the rows file f has gained since the run began
Appended(f) ==
    SubSeq(files[f].rows, Len(before[f].rows) + 1, Len(files[f].rows))

\* the relations of doc to the company focus_id, and its topics
Matches(doc, focus_id) ==
    Cardinality({i \in 1..Len(doc.companies) :
                    doc.companies[i].company.id = focus_id})

Topics(doc) == Len(doc.topics)

\* C6: for a batch of documents, write_docs appends one row per document
\* to documents.csv, m rows to documents_companies.csv, T rows to
\* documents_topics.csv and m * T rows to documents_denormalised.csv, m
\* being the document's relations to the focus company and T its topics.
C6_RowCounts ==
    pc = "resume"
        => LET f_id == args.focus_id
               Sum(Op(_)) == SumSeq([d \in 1..Len(page) |-> Op(page[d])])
               One(doc) == 1
               M(doc) == Matches(doc, f_id)
               MT(doc) == Matches(doc, f_id) * Topics(doc)
           IN  /\ Len(Appended("documents.csv")) = Sum(One)
               /\ Len(Appended("documents_companies.csv")) = Sum(M)
               /\ Len(Appended("documents_topics.csv")) = Sum(Topics)
               /\ Len(Appended("documents_denormalised.csv")) = Sum(MT)

\* a document related twice to the focus company and once to another,
\* with two topics, has been written
C6_Witness ==
    /\ pc = "resume"
    /\ Len(page) = 1
    /\ Len(page[1].companies) = 2
    /\ Matches(page[1], args.focus_id) = 2
    /\ Topics(page[1]) = 2
    /\ Len(Appended("documents_denormalised.csv")) = 4

\* the core fields of doc that row holds
CoreFields(doc) == {doc.id, doc.harvestTime, doc.sentiment, doc.reach}

HasCoreFields(row) ==
    \E d \in 1..Len(page) : CoreFields(page[d]) \subseteq Range(row)

HasOnlyId(row) ==
    \E d \in 1..Len(page) :
        CoreFields(page[d]) \cap Range(row) = {page[d].id}

\* C7 as stated: every row write_docs appends to any of the four files
\* holds the document's id, harvest time, sentiment and reach.
C7_CoreFieldsEverywhere ==
    pc = "resume"
        => \A f \in FileNames :
               \A i \in 1..Len(Appended(f)) : HasCoreFields(Appended(f)[i])

\* C7 as the code has it: every appended row holds the document's id; the
\* rows of documents.csv and documents_denormalised.csv hold its harvest
\* time, sentiment and reach as well, the rows of documents_companies.csv
\* and documents_topics.csv hold none of these three.
C7_CoreFieldsByTable ==
    pc = "resume"
        => /\ \A f \in {"documents.csv", "documents_denormalised.csv"} :
                  \A i \in 1..Len(Appended(f)) :
                      HasCoreFields(Appended(f)[i])
           /\ \A f \in {"documents_companies.csv", "documents_topics.csv"} :
                  \A i \in 1..Len(Appended(f)) : HasOnlyId(Appended(f)[i])

\* a document has added a row to each of the four files
C7_Witness ==
    /\ pc = "resume"
    /\ \A f \in FileNames : Len(Appended(f)) >= 1

HeaderCount(f) ==
    Cardinality({i \in 1..Len(files[f].rows) :
                    files[f].rows[i] = file_headers[f]})

\* C8: a run writes the header of a file at most once, and only to a file
\* that did not exist when the run began or in a run without --append; as
\* long as every run so far was an --append run, no file holds its header
\* row more than once.
C8_HeadersOnce ==
    /\ \A f \in FileNames :
          /\ hdrWrites[f] <= 1
          /\ hdrWrites[f] = 1 => (~before[f].exists \/ ~args.append)
    /\ allAppend => \A f \in FileNames : HeaderCount(f) <= 1

\* a second --append run has ended over a file whose header the first
\* --append run wrote
C8_Witness ==
    /\ run = 2
    /\ allAppend
    /\ pc = "finished"
    /\ \E f \in FileNames :
          /\ before[f].exists
          /\ before[f].rows[1] = file_headers[f]
          /\ hdrWrites[f] = 0
          /\ HeaderCount(f) = 1

\* the run was started with neither flag over at least one existing file
\* and is past its pre-flight check
ConflictingRun ==
    /\ run >= 1
    /\ ~args.append
    /\ ~args.overwrite
    /\ \E f \in FileNames : before[f].exists
    /\ pc # "preflight"

\* C9: a run with neither --append nor --overwrite that finds an output
\* file has failed with the files-exist error naming the files found,
\* having sent no request and left every file as it was.
C9_ConflictBeforeAnything ==
    ConflictingRun
        => /\ pc = "failed"
           /\ error # None
           /\ Get(error).type = "Exception"
           /\ Get(error).msg = "Files already exist"
           /\ Range(Get(error).files)
                  = {f \in FileNames : before[f].exists}
           /\ runRequests = 0
           /\ files = before

\* such a run has failed over three of the four files
C9_Witness ==
    /\ ConflictingRun
    /\ pc = "failed"
    /\ Len(Get(error).files) = 3

\* C10: without --overwrite, every file that existed when the run began
\* still exists and begins with the rows it had then.
C10_ExistingContentKept ==
    ~args.overwrite
        => \A f \in FileNames :
               before[f].exists
                   => /\ files[f].exists
                      /\ IsPrefix(before[f].rows, files[f].rows)

\* an --append run has ended with rows added behind those a file had
C10_Witness ==
    /\ pc = "finished"
    /\ args.append
    /\ ~args.overwrite
    /\ \E f \in FileNames :
          /\ before[f].exists
          /\ before[f].rows # <<>>
          /\ Len(files[f].rows) > Len(before[f].rows)

(* ------------------------- the run as a whole -------------------------- *)
\* the documents of the error-free pages the server has sent, in order
FetchedDocs ==
    Flatten([i \in 1..Len(served) |->
                [j \in 1..Len(Edges(served[i])) |->
                    Edges(served[i])[j].node]])

\* what the rows of this run's documents stand behind in file f: the header
\* the run wrote, or what the file held when an --append run found it
BaseRows(f) ==
    IF args.append /\ before[f].exists
    THEN before[f].rows ELSE <<file_headers[f]>>

\* the rows of file f behind the first n
RowsBehind(f, n) == SubSeq(files[f].rows, n + 1, Len(files[f].rows))

\* the ids at the head of the rows rs, and of the documents ds
RowIds(rs) == [i \in 1..Len(rs) |-> rs[i][1]]
DocIds(ds) == [i \in 1..Len(ds) |-> ds[i].id]

\* C12 as stated: after a successful run documents.csv holds one header row
\* and behind it one row per fetched document, in fetch order, and every
\* row of documents_companies.csv behind its first has the focus id as
\* company id.
C12_HeaderThenEveryDocument ==
    pc = "finished"
        => /\ files["documents.csv"].rows # <<>>
           /\ files["documents.csv"].rows[1] = docs_header
           /\ RowIds(RowsBehind("documents.csv", 1)) = DocIds(FetchedDocs)
           /\ \A i \in 2..Len(files["documents_companies.csv"].rows) :
                  LET row == files["documents_companies.csv"].rows[i] IN
                  Len(row) >= 2 /\ row[2] = args.focus_id

\* C12 as the code has it: after a successful run each file holds the
\* header the run wrote, or, in an --append run over a file that existed,
\* the rows the file held; behind them documents.csv holds one row per
\* fetched document, in fetch order, and documents_companies.csv only rows
\* whose company id is the focus id.
C12_EveryDocumentBehindBase ==
    pc = "finished"
        => /\ \A f \in FileNames : IsPrefix(BaseRows(f), files[f].rows)
           /\ RowIds(RowsBehind("documents.csv",
                                Len(BaseRows("documents.csv"))))
                  = DocIds(FetchedDocs)
           /\ LET rs == RowsBehind("documents_companies.csv",
                                   Len(BaseRows("documents_companies.csv")))
              IN  \A i \in 1..Len(rs) : rs[i][2] = args.focus_id

\* a run without --append has ended behind a page of two documents and a
\* page of one, with rows in documents_companies.csv
C12_Witness ==
    /\ pc = "finished"
    /\ ~args.append
    /\ Len(served) = 2
    /\ Len(Edges(served[1])) = 2
    /\ Len(Edges(served[2])) = 1
    /\ Len(files["documents.csv"].rows) = 4
    /\ Len(files["documents_companies.csv"].rows) > 1

\* the latest answer ends the fetch for good: an error that is no 429
\* response, the rate-limit answer of the last attempt, or a body with
\* errors that get_documents has looked at
FatalAnswer ==
    \/ AnsweredOtherError
    \/ rateLimited = max_retries + 1
    \/ /\ response # None
       /\ Get(response).errors # None
       /\ pc # "response"

\* the rows the documents ds add to file f
RowsOf(f, ds) ==
    Flatten([d \in 1..Len(ds) |-> RowsFor(f, ds[d], args.focus_id)])

\* C13: once the fetch of a page has failed for good, the run has ended
\* with an error and every file holds its header or earlier content and,
\* behind it, exactly the rows of the pages fetched before.
C13_FatalFetchEndsRun ==
    FatalAnswer
        => /\ pc = "failed"
           /\ error # None
           /\ Len(yielded) = Len(served)
           /\ \A f \in FileNames :
                  files[f].rows = BaseRows(f) \o RowsOf(f, FetchedDocs)

\* the fetch of the second page met a 500 response behind a first page of
\* two documents
C13_Witness ==
    /\ AnsweredOtherError
    /\ pc = "failed"
    /\ Len(served) = 1
    /\ Len(Edges(served[1])) = 2
    /\ Len(RowsBehind("documents.csv", Len(BaseRows("documents.csv")))) = 2

\* C14: a rate-limited request is not retried when the Retry-After of the
\* answer is more than max_retry_wait: the call never sleeps for such an
\* answer.
C14_NoRetryBeyondMaxWait ==
    pc = "sleep" => Get(lastAnswer).hdrs.retry_after <= max_retry_wait

\* C15: one call sends at most max_retries requests.
C15_AtMostMaxRetriesRequests == requests <= max_retries

\* the server's latest answer is a body with neither errors nor data
AnsweredNothing ==
    /\ lastAnswer # None
    /\ Get(lastAnswer).type = "ok"
    /\ Get(lastAnswer).body.errors = None
    /\ Get(lastAnswer).body.data = None

\* C17: a response with neither errors nor data ends the fetch: it is
\* followed by no request, no batch is yielded for it, no error is raised
\* and the run ends normally, whatever pages came before.
C17_NoDataEndsFetch ==
    AnsweredNothing
        => /\ pc \in {"response", "finished"}
           /\ error = None
           /\ Len(yielded) = Len(served)
           /\ \A f \in FileNames :
                  files[f].rows = BaseRows(f) \o RowsOf(f, FetchedDocs)

\* the second response of a fetch held neither errors nor data
C17_Witness ==
    /\ AnsweredNothing
    /\ pc = "finished"
    /\ Len(yielded) = 1
    /\ yielded[1] # <<>>

\* C20: every row write_docs appends to a file has as many fields as the
\* header of that file.
C20_RowsMatchHeader ==
    pc = "resume"
        => \A f \in FileNames :
               \A i \in 1..Len(Appended(f)) :
                   Len(Appended(f)[i]) = Len(file_headers[f])

\* C18 as stated: the output files are opened once in a run, stay open
\* while each next page is fetched, rate-limit sleeps included, and are
\* closed when the run has ended.
C18_HandlesHeldAcrossPages ==
    /\ opens <= 1
    /\ (opens > 0 /\ pc \in {"resume", "request", "sleep", "response"})
           => handles = FileNames
    /\ pc \in {"finished", "failed"} => handles = {}

\* C18 as the code has it: each call of write_docs, one per page, opens the
\* four files and closes them before it returns; no output file is open
\* while a page is fetched, rate-limit sleeps included, or when the run
\* has ended.
C18_HandlesHeldPerPage ==
    /\ handles = IF pc = "writing" THEN FileNames ELSE {}
    /\ opens = IF pc = "write" THEN Len(yielded) - 1 ELSE Len(yielded)

\* the fetch of the second page sleeps behind a rate-limit answer, the
\* rows of the first page written
C18_Witness ==
    /\ pc = "sleep"
    /\ opens = 1
    /\ handles = {}
    /\ Len(files["documents.csv"].rows) > 1

(* ------------------------------ the searches --------------------------- *)
\* the nodes of the responses the current search was sent, in order
NodesSent ==
    Flatten([i \in 1..Len(results) |->
                IF Get(search).kind = "company"
                THEN CompanyNodes(results[i])
                ELSE TaxonomyNodes(results[i])])

PairsSent == [i \in 1..Len(NodesSent) |-> <<NodesSent[i].name, NodesSent[i].id>>]

SameButCase(entry) == Lower(entry[1]) = Lower(Get(search).name)

\* C11: a search that has returned holds in "all" the (name, id) of every
\* result of every page, in the order the API sent them, and in "best"
\* exactly those of them whose name is the query but for case; one such
\* result gives a "best" of length 1 and an "all" of length 1 or more. The
\* taxonomy search does the same with its one list.
C11_SearchPartition ==
    pc = "s_done"
        => /\ companies.all = PairsSent
           /\ companies.best = SelectSeq(PairsSent, SameButCase)
           /\ Cardinality({i \in 1..Len(PairsSent) :
                              SameButCase(PairsSent[i])}) = 1
                  => Len(companies.best) = 1 /\ Len(companies.all) >= 1

\* a company search over two pages has returned with one exact match, whose
\* name is not the query letter for letter
C11_Witness ==
    /\ pc = "s_done"
    /\ Get(search).kind = "company"
    /\ Len(results) = 2
    /\ Len(companies.all) >= 2
    /\ Len(companies.best) = 1
    /\ companies.best[1][1] # Get(search).name

\* C16: a response with errors that get_documents, search_companies or
\* search_taxonomy has dealt with has ended the operation with the
\* exception for the errors, and none of its data was read.
C16_ErrorsShortCircuit ==
    (/\ response # None
     /\ Get(response).errors # None
     /\ pc \notin {"response", "s_response", "t_response"})
        => /\ pc \in {"failed", "s_failed"}
           /\ error = Some(GraphqlException(Get(Get(response).errors)))

\* the endCursor of the latest page of the current fetch, if any
LastCursor ==
    IF results # <<>>
    THEN Some(Last(results).companies.pageInfo.endCursor)
    ELSE IF served # <<>>
         THEN Some(PageInfo(Last(served)).endCursor)
         ELSE None

C21_BothFlagsRejected ==
    (run > 0 /\ args.append /\ args.overwrite)
        => /\ pc = "failed"
           /\ Get(error).type = "ArgumentError"
           /\ runRequests = 0
           /\ files = before

\* C22: in a run without --append that is past the pre-flight check, from
\* the moment of its first request until write_docs is first called every
\* output file exists and holds its header row and nothing else, whatever
\* it held before; so it is when that request has failed.
C22_HeadersBeforeFirstRequest ==
    (/\ run > 0
     /\ ~args.append
     /\ opens = 0
     /\ pc = "request" \/ runRequests >= 1)
        => \A f \in FileNames : files[f] = File(<<file_headers[f]>>)

\* the first request of an --overwrite run over files with rows has failed
C22_Witness ==
    /\ args.overwrite
    /\ ~args.append
    /\ pc = "failed"
    /\ runRequests = 1
    /\ \A f \in FileNames : before[f] = File(LegacyRows)
    /\ \A f \in FileNames : files[f] = File(<<file_headers[f]>>)

=============================================================================
